---- MODULE Spec2Model ----
(***************************************************************************)
(* Model of oidn-wgpu-interop: pairing a wgpu device with an OIDN device   *)
(* (src/src/lib.rs, src/src/vulkan.rs) and allocating buffers whose memory *)
(* is shared between the two APIs.                                         *)
(*                                                                         *)
(* Every public operation is one action.  The native calls an operation    *)
(* makes are recorded, in order, in lastCalls; the native objects it       *)
(* creates and releases are kept in oidnDevs, vkBuffers, memory, handles   *)
(* and buffers.  The answers of the driver and of the engine (success or   *)
(* failure of a native call, reported alignment, memory types ...) are the *)
(* inputs of the actions.                                                  *)
(***************************************************************************)
EXTENDS Integers, Sequences, FiniteSets, TLC

VARIABLES
    dev,        \* the paired device held by the caller (NoDev when none)
    oidnDevs,   \* engine device handles ever created: handle h is oidnDevs[h]
    vkBuffers,  \* native vk::Buffer objects ever created
    memory,     \* vk::DeviceMemory allocations ever made
    handles,    \* exported Win32 handles: handles[k] is the memory it names
    buffers,    \* VulkanBuffer / SharedBuffer values ever returned or built
    queues,     \* per wgpu queue, the submissions that have not retired yet
    test,       \* the buffer the caller tests and what it wrote to it last
    lastOp,     \* name of the operation that ran last
    lastArg,    \* its arguments and the environment's answers
    lastResult, \* its result
    lastCalls   \* the native calls it made, in order

vars == <<dev, oidnDevs, vkBuffers, memory, handles, buffers, queues, test,
          lastOp, lastArg, lastResult, lastCalls>>

----------------------------------------------------------------------------
(* Bounds of the model. *)

MaxOidnDevices == 1     \* engine device handles created over a run
MaxVkBuffers == 2       \* vk::Buffer objects created over a run
MaxSize == 1            \* largest requested buffer size, in bytes
MaxCount == 2           \* largest count passed to allocate_buffers
MaxTestBuffers == 1     \* vk::Buffer objects created in a round-trip test
MaxPending == 1         \* caller writes waiting in the queue
MaxDriverSize == 3      \* largest requested size when the driver's answers vary
MaxAlignLog == 2        \* largest reported alignment is 2^MaxAlignLog
MaxMemTypes == 3        \* longest memory type list a device reports

(* Program constants. *)

\* OIDN_EXTERNAL_MEMORY_TYPE_FLAG_OPAQUE_WIN32, the flag the Vulkan backend
\* requires and imports with.
OPAQUE_WIN32 == 4
\* OIDN_EXTERNAL_MEMORY_TYPE_FLAG_D3D12_RESOURCE, the Dx12 backend's flag.
D3D12_RESOURCE == 512

----------------------------------------------------------------------------
(* Helpers. *)

RECURSIVE BitAnd(_, _)
\* a & b on naturals
BitAnd(a, b) ==
    IF a = 0 \/ b = 0 THEN 0
    ELSE ((a % 2) * (b % 2)) + 2 * BitAnd(a \div 2, b \div 2)

RECURSIVE Pow2(_)
Pow2(n) == IF n = 0 THEN 1 ELSE 2 * Pow2(n - 1)

\* wgpu::util::align_to: the least multiple of alignment that is >= value
align_to(value, alignment) ==
    IF value % alignment = 0 THEN value
    ELSE value + (alignment - (value % alignment))

Contains(s, x) == \E i \in 1..Len(s) : s[i] = x

\* position of the first x in s, 0 when absent
FirstIndex(s, x) ==
    IF Contains(s, x) THEN CHOOSE i \in 1..Len(s) :
                              s[i] = x /\ \A j \in 1..(i - 1) : s[j] # x
    ELSE 0

Count(s, x) == Cardinality({i \in 1..Len(s) : s[i] = x})

----------------------------------------------------------------------------
(* Adapters: what the caller passes to device creation, together with the  *)
(* answers the driver and the engine give for it.                          *)

\* wgpu::Backend values an adapter may report; lib.rs supports the first two
Backends == {"Vulkan", "Dx12", "Gl", "Metal"}

\* bitmasks the engine may report for "externalMemoryTypes"
ExternalMemoryTypes == {0, OPAQUE_WIN32 + 1, D3D12_RESOURCE + OPAQUE_WIN32}

Adapters ==
    [ backend    : Backends,
      hasExt     : BOOLEAN,              \* supports VK_KHR_external_memory_win32
      apiVersion : {10, 11},             \* Vulkan 1.0 / 1.1
      engine     : {"device", "null", "null_error"},
                                         \* oidnNewDeviceBy*: a handle, or null
                                         \* with / without a pending error
      extTypes   : ExternalMemoryTypes,  \* oidnGetDeviceInt("externalMemoryTypes")
      requestOk  : BOOLEAN ]             \* adapter.request_device succeeds

NoDev == [kind |-> "none", backend |-> "none", oidn |-> 0, queue |-> 0]

\* The queue the caller receives from device creation.
CallerQueue == 1
\* the caller's queue, and one more that no code of the library creates
QueueIds == {CallerQueue, CallerQueue + 1}

\* DeviceQueue with the clone replaced by a queue of the device's own.
DeviceQueue_own(q) == q + 1
\* queue: queue.clone() -- the device keeps a handle to the same queue
DeviceQueue(q) == q

\* a fresh engine handle: the index of the entry appended to oidnDevs
NewHandle(devs) == Len(devs) + 1
OidnNew(devs) == Append(devs, [committed |-> FALSE, released |-> 0])
OidnCommit(devs, h) == [devs EXCEPT ![h].committed = TRUE]
OidnRelease(devs, h) == [devs EXCEPT ![h].released = @ + 1]

----------------------------------------------------------------------------
(* Device pairing.  A pairing routine yields                               *)
(*   [result, calls, devs, device, flags, carried]:                        *)
(* its result, the native calls it made, the engine handles afterwards,    *)
(* the device it returns (NoDev on failure), the supported flags and the   *)
(* backend kind an UnsupportedBackend error carries ("none" otherwise).    *)

Outcome(result, calls, devs, device, flags) ==
    [result |-> result, calls |-> calls, devs |-> devs, device |-> device,
     flags |-> flags, carried |-> "none"]

\* SupportedFlags without the mask: everything the engine reports.
SupportedFlags_unmasked(supported_memory_types, required_flags) ==
    supported_memory_types
\* lib.rs 122: supported_memory_types & required_flags
SupportedFlags(supported_memory_types, required_flags) ==
    BitAnd(supported_memory_types, required_flags)

\* Device::new_from_raw_oidn_adapter, lib.rs 106-144.  h = 0 is the null handle.
new_from_raw_oidn_adapter(h, a, required_flags, backend, devs, calls) ==
    IF h = 0 THEN
        Outcome("OidnUnsupported", calls, devs, NoDev, 0)
    ELSE
        LET committed == OidnCommit(devs, h)
            calls1 == calls \o <<"oidnCommitDevice", "oidnGetDeviceInt">>
            supported_flags == SupportedFlags(a.extTypes, required_flags)
        IN  IF supported_flags = 0 THEN
                Outcome("OidnImportUnsupported",
                        Append(calls1, "oidnReleaseDevice"),
                        OidnRelease(committed, h), NoDev, 0)
            ELSE IF ~a.requestOk THEN
                \* `?` leaves the function; the oidn::Device wrapper made at
                \* line 129 is dropped, which releases the handle
                Outcome("RequestDeviceError",
                        calls1 \o <<"request_device", "oidnReleaseDevice">>,
                        OidnRelease(committed, h), NoDev, 0)
            ELSE
                Outcome("Ok", Append(calls1, "request_device"), committed,
                        [kind |-> "Device", backend |-> backend, oidn |-> h,
                         queue |-> DeviceQueue(CallerQueue)],
                        supported_flags)

\* Probe with the extension test left out.
Probe_always(a) == a.backend = "Vulkan"
\* The capability probe of vulkan.rs 45-67: the adapter qualifies when it is
\* a Vulkan adapter (as_hal::<Vulkan> yields Some) that supports
\* VK_KHR_external_memory_win32.  The API version is not looked at.
Probe(a) == a.backend = "Vulkan" /\ a.hasExt

\* The engine's answer to oidnNewDeviceByUUID / ByLUID: a fresh handle or null.
EngineHandle(a, devs) == IF a.engine = "device" THEN NewHandle(devs) ELSE 0
EngineDevs(a, devs) == IF a.engine = "device" THEN OidnNew(devs) ELSE devs

\* Device::new_vulkan: probe, request the engine device by UUID, pair.
new_vulkan(a, devs) ==
    IF ~Probe(a) THEN
        Outcome("MissingFeature", <<"supports_extension">>, devs, NoDev, 0)
    ELSE
        new_from_raw_oidn_adapter(
            EngineHandle(a, devs), a, OPAQUE_WIN32, "Vulkan", EngineDevs(a, devs),
            <<"supports_extension", "get_physical_device_properties2",
              "oidnNewDeviceByUUID">>)

\* Device::new_dx12: the LUID needs no extension, request by LUID, pair.
new_dx12(a, devs) ==
    new_from_raw_oidn_adapter(
        EngineHandle(a, devs), a, D3D12_RESOURCE, "Dx12", EngineDevs(a, devs),
        <<"AdapterLuid", "oidnNewDeviceByLUID">>)

\* Device::new whose match has no arm for the other backends: they are
\* handed to the Vulkan routine.
Device_new_no_default(a, devs) ==
    CASE a.backend = "Dx12" -> new_dx12(a, devs)
      [] OTHER -> new_vulkan(a, devs)
\* Device::new, lib.rs 73-85
Device_new(a, devs) ==
    CASE a.backend = "Vulkan" -> new_vulkan(a, devs)
      [] a.backend = "Dx12" -> new_dx12(a, devs)
      [] OTHER -> [Outcome("UnsupportedBackend", <<>>, devs, NoDev, 0)
                      EXCEPT !.carried = a.backend]

\* VulkanDevice::new, vulkan.rs 39-95.  Its error is an
\* Option<RequestDeviceError>: "Err(None)" or "Err(Some)".
VulkanDevice_new(a, devs) ==
    IF ~Probe(a) THEN
        Outcome("Err(None)", <<"supports_extension">>, devs, NoDev, 0)
    ELSE
        LET h == EngineHandle(a, devs)
            devs1 == EngineDevs(a, devs)
            calls1 == <<"supports_extension", "get_physical_device_properties2",
                        "oidnNewDeviceByUUID">>
                      \o (IF h = 0 THEN <<"oidnGetDeviceError">> ELSE <<>>)
        IN  IF h = 0 /\ a.engine = "null_error" THEN
                Outcome("panic", calls1, devs1, NoDev, 0)
            ELSE
                \* a null handle with no pending error falls through: it is
                \* committed and wrapped like any other, lines 82-85
                LET devs2 == IF h = 0 THEN devs1 ELSE OidnCommit(devs1, h)
                    calls2 == calls1 \o <<"oidnCommitDevice", "request_device">>
                IN  IF ~a.requestOk THEN
                        Outcome("Err(Some)", Append(calls2, "oidnReleaseDevice"),
                                IF h = 0 THEN devs2 ELSE OidnRelease(devs2, h),
                                NoDev, 0)
                    ELSE
                        Outcome("Ok", calls2, devs2,
                                [kind |-> "VulkanDevice", backend |-> "Vulkan",
                                 oidn |-> h, queue |-> DeviceQueue(CallerQueue)],
                                0)

----------------------------------------------------------------------------
(* The shared-buffer allocator of vulkan.rs.                               *)

\* contents of device memory that nothing has written yet
Uninit == 255
PatternBytes == {0, 1}

DEVICE_LOCAL == "DEVICE_LOCAL"
HOST_VISIBLE == "HOST_VISIBLE"

\* memory type lists a physical device may report (property flags per type)
MemTypeLists ==
    { <<{DEVICE_LOCAL}, {HOST_VISIBLE, DEVICE_LOCAL}>>,
      <<{HOST_VISIBLE}, {DEVICE_LOCAL}>>,
      <<{HOST_VISIBLE}, {HOST_VISIBLE}>> }

\* the native calls of one loop iteration that can fail, in program order
FailSteps == {"create_buffer", "allocate_memory", "bind_buffer_memory",
              "get_memory_win32_handle", "oidnNewSharedBufferFromWin32Handle"}

\* The answers of the driver and the engine during one allocator call.
EnvOf(alignment, typeBits, memTypes, failIter, failStep) ==
    [ alignment |-> alignment,    \* req.alignment
      typeBits  |-> typeBits,     \* req.memory_type_bits
      memTypes  |-> memTypes,     \* get_physical_device_memory_properties
      failIter  |-> failIter,     \* iteration in which a native call fails
      failStep  |-> failStep ]    \* ... and which call that is (0: none does)

\* the answers that matter to a call with this size and count
Envs(size, count) ==
    IF size = 0 \/ count = 0
    THEN {EnvOf(1, 1, <<{DEVICE_LOCAL}, {HOST_VISIBLE, DEVICE_LOCAL}>>, 0, "none")}
    ELSE {EnvOf(al, tb, mt, 0, "none") :
            al \in {1, 2}, tb \in 1..3, mt \in MemTypeLists}
         \cup {EnvOf(al, tb, mt, fi, fs) :
                  al \in {1, 2}, tb \in 1..3, mt \in MemTypeLists,
                  fi \in 1..count, fs \in FailSteps}

\* property flags of one memory type
PropertyFlagSets == {{DEVICE_LOCAL}, {HOST_VISIBLE}, {HOST_VISIBLE, DEVICE_LOCAL}}

\* every memory type list of up to MaxMemTypes types
AllMemTypeLists == UNION {[1..n -> PropertyFlagSets] : n \in 1..MaxMemTypes}

\* req.alignment is a power of two
Alignments == {Pow2(k) : k \in 0..MaxAlignLog}

\* The driver's answers to one call in which no native call fails: every
\* alignment, every memory type list and every non-empty set of acceptable
\* types among those of the list.
DriverEnvs(size) ==
    IF size = 0 THEN Envs(0, 1)
    ELSE {EnvOf(al, tb, mt, 0, "none") :
            al \in Alignments,
            <<mt, tb>> \in {<<l, b>> \in AllMemTypeLists \X (1..(Pow2(MaxMemTypes) - 1)) :
                                b < Pow2(Len(l))}}

\* bit i (from 0) of a bitmask
Bit(bits, i) == (bits \div Pow2(i)) % 2 = 1

RECURSIVE ScanMemoryTypes(_, _, _, _)
\* vulkan.rs 145-153: the loop over memory_types_as_slice() from index i
\* on; its value is what idx holds after the loop (-1 for None).  doBreak
\* says whether a match leaves the loop, as the break of line 151 does.
ScanMemoryTypes(memTypes, typeBits, i, doBreak) ==
    IF i >= Len(memTypes) THEN -1
    ELSE LET types_bits == Pow2(i)                                    \* 1 << i
             is_required_memory_type == BitAnd(typeBits, types_bits) # 0
             has_required_properties ==
                 memTypes[i + 1] \cap {DEVICE_LOCAL} = {DEVICE_LOCAL}
             rest == ScanMemoryTypes(memTypes, typeBits, i + 1, doBreak)
         IN  IF is_required_memory_type /\ has_required_properties
             THEN (IF doBreak \/ rest = -1 THEN i ELSE rest)
             ELSE rest

\* SelectMemoryType without the break: the last match wins.
SelectMemoryType_no_break(memTypes, typeBits) ==
    ScanMemoryTypes(memTypes, typeBits, 0, FALSE)
\* vulkan.rs 141-153: the index (from 0) the loop leaves in idx: the first
\* memory type that the buffer accepts and that is device-local; -1 for None
SelectMemoryType(memTypes, typeBits) ==
    ScanMemoryTypes(memTypes, typeBits, 0, TRUE)

\* The step at which iteration i of the loop returns its error:
\*   1 create_buffer (120-125)      2 no memory type (155-157)
\*   3 allocate_memory (173-176)    4 bind_buffer_memory (178-183)
\*   5 get_memory_win32_handle (185-191)
\*   6 oidnNewSharedBufferFromWin32Handle returned null (193-204)
\*   7 none: the buffer is built and pushed (205-225)
\* A null engine device imports nothing.
FailedStep(i, env, oidnNull) ==
    LET injected ==
            IF env.failIter # i THEN 7
            ELSE CASE env.failStep = "create_buffer" -> 1
                   [] env.failStep = "allocate_memory" -> 3
                   [] env.failStep = "bind_buffer_memory" -> 4
                   [] env.failStep = "get_memory_win32_handle" -> 5
                   [] OTHER -> 6
        idx == SelectMemoryType(env.memTypes, env.typeBits)
    IN  IF injected = 1 THEN 1
        ELSE IF idx = -1 THEN 2
        ELSE IF injected = 7 /\ oidnNull THEN 6
        ELSE injected

\* The native calls of an iteration that returns at step k.
IterationCalls(k) ==
    <<"create_buffer">>
    \o (IF k > 1 THEN <<"get_buffer_memory_requirements",
                        "get_physical_device_memory_properties">> ELSE <<>>)
    \o (IF k > 2 THEN <<"allocate_memory">> ELSE <<>>)
    \o (IF k > 3 THEN <<"bind_buffer_memory">> ELSE <<>>)
    \o (IF k > 4 THEN <<"get_memory_win32_handle">> ELSE <<>>)
    \o (IF k > 5 THEN <<"oidnNewSharedBufferFromWin32Handle">> ELSE <<>>)
    \o (IF k = 6 THEN <<"oidnGetDeviceError">> ELSE <<>>)
    \o (IF k = 7 THEN <<"buffer_from_raw", "create_command_encoder",
                        "clear_buffer", "submit", "create_buffer_from_hal",
                        "create_buffer_from_raw">>
        ELSE <<>>)

\* The native state an allocator call works on:
\*   vk, mem, handles, bufs: the objects, as in the variables of the same
\*   names; queue: the device's queue; calls: the calls made so far;
\*   built: the buffers pushed to the Vec so far; err: an error was returned;
\*   result: the value returned; step: where the last iteration ended
\*   (see FailedStep; 0 when no iteration ran); allocTypes: the
\*   memory_type_index of each allocate_memory call made
AllocState(vk, mem, hs, bufs, queue) ==
    [vk |-> vk, mem |-> mem, handles |-> hs, bufs |-> bufs, queue |-> queue,
     calls |-> <<>>, built |-> <<>>, err |-> FALSE, result |-> "Ok",
     step |-> 0, allocTypes |-> <<>>]

\* SubmitClear with the submission forgotten: the clear is encoded only.
SubmitClear_not_submitted(queue, m, v, range) == queue
\* vulkan.rs 206-210: encoder.clear_buffer(&buf, 0..size) and
\* self.queue.submit([encoder.finish()]): one submission that zero-fills
\* bytes 0..range of native buffer v, which is bound to memory m
SubmitClear(queue, m, v, range) ==
    Append(queue, [op |-> "clear", mem |-> m, vk |-> v, from |-> 0,
                   to |-> range, data |-> <<>>])

\* ImportSize with the requested size in place of the aligned one.
ImportSize_requested(size, aligned) == size
\* vulkan.rs 198: the byte size given to oidnNewSharedBufferFromWin32Handle
\* is `size`, which line 132 has rebound to the aligned size
ImportSize(size, aligned) == aligned

\* One iteration of the loop of allocate_buffers, vulkan.rs 112-226.
\* A native buffer records the size it was created with, the memory it is
\* bound to and the offset of the binding; a buffer value records the
\* memory it owns, the native buffer its wgpu buffer wraps and the declared
\* size of that (size), the exported handle its OIDN buffer was imported
\* from and the size of the import (oidnSize).
AllocIteration(S, i, size, env, oidnNull, kind) ==
    LET k == FailedStep(i, env, oidnNull)
        asize == align_to(size, env.alignment)              \* line 132
        v == Len(S.vk) + 1
        m == Len(S.mem) + 1
        b == Len(S.bufs) + 1
        h == Len(S.handles) + 1
        raw_buffer == [size |-> size, live |-> TRUE,
                       mem |-> IF k > 4 THEN m ELSE 0, offset |-> 0]
        mem_alloc == [size |-> asize, live |-> TRUE, frees |-> 0,
                      bytes |-> [j \in 1..asize |-> Uninit]]
        buffer == [kind |-> kind, mem |-> m, vk |-> v, alive |-> TRUE,
                   size |-> asize, handle |-> h,
                   oidnSize |-> ImportSize(size, asize)]
    IN  [ vk      |-> IF k > 1 THEN Append(S.vk, raw_buffer) ELSE S.vk,
          mem     |-> IF k > 3 THEN Append(S.mem, mem_alloc) ELSE S.mem,
          handles |-> IF k > 5 THEN Append(S.handles, m) ELSE S.handles,
          bufs    |-> IF k = 7 THEN Append(S.bufs, buffer) ELSE S.bufs,
          queue   |-> IF k = 7 THEN SubmitClear(S.queue, m, v, asize)
                      ELSE S.queue,
          calls   |-> S.calls \o IterationCalls(k),
          built   |-> IF k = 7 THEN Append(S.built, b) ELSE S.built,
          err     |-> k < 7,
          result  |-> IF k < 7 THEN "Err(None)" ELSE "Ok",
          step    |-> k,
          allocTypes |->
              IF k > 2
              THEN Append(S.allocTypes,
                          SelectMemoryType(env.memTypes, env.typeBits))
              ELSE S.allocTypes ]

\* What dropping a field of a buffer value releases.
FieldRelease(field) ==
    CASE field = "_allocation" -> <<"free_memory">>
      [] field = "oidn_buffer" -> <<"oidnReleaseBuffer">>
      [] field = "wgpu_buffer" -> <<"destroy_buffer">>
      [] OTHER -> <<>>    \* memory: a plain handle; wgpu_device: a clone

RECURSIVE FieldsDropped(_)
\* Rust drops the fields of a value in declaration order.
FieldsDropped(fields) ==
    IF fields = <<>> THEN <<>>
    ELSE FieldRelease(Head(fields)) \o FieldsDropped(Tail(fields))

\* struct VulkanBuffer, vulkan.rs 20-25
VulkanBufferFields == <<"memory", "wgpu_device", "oidn_buffer", "wgpu_buffer">>
\* struct SharedBuffer, lib.rs 153-157
SharedBufferFields == <<"_allocation", "oidn_buffer", "wgpu_buffer">>

\* Drop for VulkanBuffer that frees nothing.
Drop_VulkanBuffer_leak == <<>>
\* Drop for VulkanBuffer, vulkan.rs 27-36: the body of drop()
Drop_VulkanBuffer == <<"free_memory">>

\* The releases made when a buffer value of the given kind is dropped:
\* drop() first, then the fields.
DropCalls(kind) ==
    IF kind = "VulkanBuffer"
    THEN Drop_VulkanBuffer \o FieldsDropped(VulkanBufferFields)
    ELSE FieldsDropped(SharedBufferFields)

\* Buffer b is dropped.
DropOne(S, b) ==
    LET buf == S.bufs[b]
        calls == DropCalls(buf.kind)
        n == Count(calls, "free_memory")
    IN  [S EXCEPT !.mem[buf.mem].frees = @ + n,
                  !.mem[buf.mem].live = IF n > 0 THEN FALSE ELSE @,
                  !.vk[buf.vk].live =
                        IF Contains(calls, "destroy_buffer") THEN FALSE ELSE @,
                  !.bufs[b].alive = FALSE,
                  !.calls = @ \o calls]

RECURSIVE DropAll(_, _)
\* A Vec of buffers is dropped: its elements, first to last.
DropAll(S, bs) ==
    IF bs = <<>> THEN S ELSE DropAll(DropOne(S, Head(bs)), Tail(bs))

RECURSIVE AllocLoop(_, _, _, _, _, _, _)
\* for i in 0..count, left at the first error
AllocLoop(S, i, count, size, env, oidnNull, kind) ==
    IF i > count \/ S.err THEN S
    ELSE AllocLoop(AllocIteration(S, i, size, env, oidnNull, kind),
                   i + 1, count, size, env, oidnNull, kind)

\* allocate_buffers that keeps the buffers built before the error.
allocate_buffers_keep_built(S, size, count, env, oidnNull, kind) ==
    IF size = 0 \/ count = 0
    THEN [S EXCEPT !.err = TRUE, !.result = "Err(None)"]
    ELSE AllocLoop(S, 1, count, size, env, oidnNull, kind)
\* VulkanDevice::allocate_buffers, vulkan.rs 96-231.  On an error the Vec
\* of the buffers built so far goes out of scope and is dropped.
allocate_buffers(S, size, count, env, oidnNull, kind) ==
    IF size = 0 \/ count = 0
    THEN [S EXCEPT !.err = TRUE, !.result = "Err(None)"]
    ELSE LET R == AllocLoop(S, 1, count, size, env, oidnNull, kind)
         IN  IF R.err THEN [DropAll(R, R.built) EXCEPT !.built = <<>>] ELSE R

\* Device::allocate_shared_buffers_vulkan: the Vulkan allocator for one
\* buffer, packaged as a SharedBuffer.
allocate_shared_buffers_vulkan(S, size, env) ==
    allocate_buffers([S EXCEPT !.calls = <<"allocate_shared_buffers_vulkan">>],
                     size, 1, env, FALSE, "SharedBuffer")

\* Device::allocate_shared_buffers_dx12: the steps of the common algorithm;
\* on a failure everything the call created is released again.
allocate_shared_buffers_dx12(S, size, env) ==
    LET R == AllocIteration([S EXCEPT !.calls = <<"allocate_shared_buffers_dx12">>],
                            1, size, env, FALSE, "SharedBuffer")
    IN  IF ~R.err THEN R
        ELSE [R EXCEPT
                !.vk = [v \in 1..Len(R.vk) |->
                          IF v > Len(S.vk) THEN [R.vk[v] EXCEPT !.live = FALSE]
                          ELSE R.vk[v]],
                !.mem = [m \in 1..Len(R.mem) |->
                          IF m > Len(S.mem)
                          THEN [R.mem[m] EXCEPT !.live = FALSE, !.frees = 1]
                          ELSE R.mem[m]],
                !.handles = S.handles,
                !.calls = @ \o <<"release">>,
                !.result = IF FailedStep(1, env, FALSE) = 6 THEN "Oidn"
                           ELSE "OutOfMemory"]

\* size == 0 never rejected.
InvalidSize_never(size) == FALSE
\* lib.rs 90: if size == 0
InvalidSize(size) == size = 0

\* allocate_shared_buffers with the arms of its match exchanged.
allocate_shared_buffers_swapped(S, backend, size, env) ==
    IF InvalidSize(size) THEN [S EXCEPT !.err = TRUE, !.result = "InvalidSize"]
    ELSE IF backend = "Dx12" THEN allocate_shared_buffers_vulkan(S, size, env)
    ELSE allocate_shared_buffers_dx12(S, size, env)
\* Device::allocate_shared_buffers, lib.rs 86-97
allocate_shared_buffers(S, backend, size, env) ==
    IF InvalidSize(size) THEN [S EXCEPT !.err = TRUE, !.result = "InvalidSize"]
    ELSE IF backend = "Dx12" THEN allocate_shared_buffers_dx12(S, size, env)
    ELSE allocate_shared_buffers_vulkan(S, size, env)

----------------------------------------------------------------------------
(* The GPU: submissions of a queue retire in submission order.             *)

\* The bytes of a memory allocation after a submission ran on it.
Executed(cmd, bytes) ==
    [j \in 1..Len(bytes) |->
        IF cmd.from < j /\ j <= cmd.to
        THEN (IF cmd.op = "clear" THEN 0 ELSE cmd.data[j - cmd.from])
        ELSE bytes[j]]

\* Memory after one submission; freed memory is out of reach.
Retire(mem, cmd) ==
    IF mem[cmd.mem].live
    THEN [mem EXCEPT ![cmd.mem].bytes = Executed(cmd, @)]
    ELSE mem

RECURSIVE RetireAll(_, _)
RetireAll(mem, cmds) ==
    IF cmds = <<>> THEN mem ELSE RetireAll(Retire(mem, Head(cmds)), Tail(cmds))

\* byte patterns of length n
Patterns(n) == [1..n -> PatternBytes]

\* buf: the buffer under test (0: none yet); written: the pattern written
\* to it last; racing: a zero-fill of the buffer was still pending when it
\* was written; drained: poll returned since
Untested == [buf |-> 0, written |-> <<>>, racing |-> FALSE, drained |-> FALSE]

\* a zero-fill of memory m is waiting in some queue
ClearPending(m) ==
    \E q \in QueueIds : \E i \in 1..Len(queues[q]) :
        queues[q][i].op = "clear" /\ queues[q][i].mem = m

----------------------------------------------------------------------------
(* Actions. *)

Init ==
    /\ dev = NoDev
    /\ oidnDevs = <<>>
    /\ vkBuffers = <<>>
    /\ memory = <<>>
    /\ handles = <<>>
    /\ buffers = <<>>
    /\ queues = [q \in QueueIds |-> <<>>]
    /\ test = Untested
    /\ lastOp = "init"
    /\ lastArg = [none |-> TRUE]
    /\ lastResult = [result |-> "none", value |-> 0]
    /\ lastCalls = <<>>

\* the sizes of the native object tables before an operation
Base == [vk |-> Len(vkBuffers), mem |-> Len(memory), handles |-> Len(handles),
         bufs |-> Len(buffers), devs |-> Len(oidnDevs)]

Paired(op, a, out) ==
    /\ dev' = out.device
    /\ oidnDevs' = out.devs
    /\ lastOp' = op
    /\ lastArg' = [adapter |-> a, base |-> Base]
    /\ lastResult' = [result |-> out.result, value |-> out.flags,
                      carried |-> out.carried]
    /\ lastCalls' = out.calls
    /\ UNCHANGED <<vkBuffers, memory, handles, buffers, queues, test>>

\* The caller creates a Device from an adapter (Device::new).
DeviceNew ==
    /\ dev = NoDev
    /\ Len(oidnDevs) < MaxOidnDevices
    /\ \E a \in Adapters : Paired("Device::new", a, Device_new(a, oidnDevs))

\* The caller creates a VulkanDevice from an adapter (VulkanDevice::new).
VulkanDeviceNew ==
    /\ dev = NoDev
    /\ Len(oidnDevs) < MaxOidnDevices
    /\ \E a \in Adapters :
          Paired("VulkanDevice::new", a, VulkanDevice_new(a, oidnDevs))

\* An allocator call ended in R; arg and res are what is recorded of its
\* arguments and of its result.
Returned(op, arg, R, res) ==
    /\ vkBuffers' = R.vk
    /\ memory' = R.mem
    /\ handles' = R.handles
    /\ buffers' = R.bufs
    /\ queues' = [queues EXCEPT ![dev.queue] = R.queue]
    /\ test' = test
    /\ lastOp' = op
    /\ lastArg' = arg
    /\ lastResult' = res
    /\ lastCalls' = R.calls
    /\ UNCHANGED <<dev, oidnDevs>>

Allocated(op, size, count, R) ==
    Returned(op, [size |-> size, count |-> count, base |-> Base], R,
             [result |-> R.result, value |-> R.built, step |-> R.step])

\* The caller asks a Device for a shared buffer.
AllocateSharedBuffers(cap) ==
    /\ dev.kind = "Device"
    /\ Len(vkBuffers) < cap
    /\ \E size \in 0..MaxSize : \E env \in Envs(size, 1) :
          Allocated("allocate_shared_buffers", size, 1,
                    allocate_shared_buffers(
                        AllocState(vkBuffers, memory, handles, buffers,
                                   queues[dev.queue]),
                        dev.backend, size, env))

\* The caller asks a VulkanDevice for count buffers.
AllocateBuffers(cap) ==
    /\ dev.kind = "VulkanDevice"
    /\ \E size \in 0..MaxSize, count \in 0..MaxCount :
          /\ Len(vkBuffers) + count <= cap
          /\ \E env \in Envs(size, count) :
                Allocated("allocate_buffers", size, count,
                          allocate_buffers(
                              AllocState(vkBuffers, memory, handles, buffers,
                                         queues[dev.queue]),
                              size, count, env, dev.oidn = 0, "VulkanBuffer"))

\* The caller asks a fresh VulkanDevice for one buffer; the driver's
\* answers range over DriverEnvs and are recorded with the call, as is the
\* memory type given to allocate_memory.
AllocateBuffersDriver ==
    /\ dev.kind = "VulkanDevice"
    /\ vkBuffers = <<>>
    /\ \E size \in 0..MaxDriverSize : \E env \in DriverEnvs(size) :
          LET R == allocate_buffers(
                       AllocState(vkBuffers, memory, handles, buffers,
                                  queues[dev.queue]),
                       size, 1, env, dev.oidn = 0, "VulkanBuffer")
          IN  Returned("allocate_buffers",
                       [size |-> size, count |-> 1, base |-> Base,
                        alignment |-> env.alignment,
                        typeBits |-> env.typeBits, memTypes |-> env.memTypes],
                       R,
                       [result |-> R.result, value |-> R.built,
                        step |-> R.step, allocTypes |-> R.allocTypes])

\* The caller drops a buffer it holds.
DropBuffer ==
    \E b \in 1..Len(buffers) :
        /\ buffers[b].alive
        /\ LET R == DropOne(AllocState(vkBuffers, memory, handles, buffers, <<>>), b)
           IN  /\ vkBuffers' = R.vk
               /\ memory' = R.mem
               /\ buffers' = R.bufs
               /\ lastOp' = "drop"
               /\ lastArg' = [buf |-> b]
               /\ lastResult' = [result |-> "Ok", value |-> 0]
               /\ lastCalls' = R.calls
        /\ UNCHANGED <<dev, oidnDevs, handles, queues, test>>

\* lib.rs 201-202: queue.write_buffer(bufs.wgpu_buffer(), 0, P); queue.submit([])
\* The test writes to one buffer, bufs.
WriteBuffer ==
    \E b \in 1..Len(buffers) :
        /\ buffers[b].alive
        /\ test.buf \in {0, b}
        /\ Cardinality({i \in 1..Len(queues[CallerQueue]) :
                           queues[CallerQueue][i].op = "write"}) < MaxPending
        /\ \E P \in Patterns(buffers[b].size) :
              /\ queues' = [queues EXCEPT ![CallerQueue] =
                              Append(@, [op |-> "write", mem |-> buffers[b].mem,
                                         vk |-> buffers[b].vk, from |-> 0,
                                         to |-> Len(P), data |-> P])]
              /\ test' = [buf |-> b, written |-> P, drained |-> FALSE,
                           racing |-> ClearPending(buffers[b].mem)]
              /\ lastOp' = "write_buffer"
              /\ lastArg' = [buf |-> b]
              /\ lastResult' = [result |-> "Ok", value |-> 0]
              /\ lastCalls' = <<"write_buffer", "submit">>
        /\ UNCHANGED <<dev, oidnDevs, vkBuffers, memory, handles, buffers>>

\* lib.rs 203-206: device.wgpu_device().poll(Maintain::Wait) returns when
\* every submission made so far has retired.
Poll ==
    /\ dev # NoDev
    /\ memory' = RetireAll(RetireAll(memory, queues[CallerQueue]),
                           queues[CallerQueue + 1])
    /\ queues' = [q \in QueueIds |-> <<>>]
    /\ test' = IF test.buf # 0 THEN [test EXCEPT !.drained = TRUE] ELSE test
    /\ lastOp' = "poll"
    /\ lastArg' = [none |-> TRUE]
    /\ lastResult' = [result |-> "Ok", value |-> 0]
    /\ lastCalls' = <<"poll">>
    /\ UNCHANGED <<dev, oidnDevs, vkBuffers, handles, buffers>>

\* lib.rs 207: bufs.oidn_buffer_mut().read()
OidnRead ==
    \E b \in 1..Len(buffers) :
        /\ buffers[b].alive
        /\ lastOp' = "read"
        /\ lastArg' = [buf |-> b]
        /\ lastResult' = [result |-> "Ok", value |-> memory[buffers[b].mem].bytes]
        /\ lastCalls' = <<"oidnReadBuffer">>
        /\ UNCHANGED <<dev, oidnDevs, vkBuffers, memory, handles, buffers,
                       queues, test>>

\* The GPU finishes the oldest submission of a queue.
GpuRetire ==
    \E q \in QueueIds :
        /\ queues[q] # <<>>
        /\ memory' = Retire(memory, Head(queues[q]))
        /\ queues' = [queues EXCEPT ![q] = Tail(@)]
        /\ UNCHANGED <<dev, oidnDevs, vkBuffers, handles, buffers, test,
                       lastOp, lastArg, lastResult, lastCalls>>

\* Pairing, allocation and destruction of buffers (the GPU is left idle:
\* what was submitted stays in the queues).
Next ==
    \/ DeviceNew
    \/ VulkanDeviceNew
    \/ AllocateSharedBuffers(MaxVkBuffers)
    \/ AllocateBuffers(MaxVkBuffers)
    \/ DropBuffer

Spec == Init /\ [][Next]_vars

\* The round trip of the test of lib.rs 171-218: pair, allocate, write through
\* the wgpu buffer, poll, read through the OIDN buffer.
NextRoundTrip ==
    \/ DeviceNew
    \/ VulkanDeviceNew
    \/ AllocateSharedBuffers(MaxTestBuffers)
    \/ AllocateBuffers(MaxTestBuffers)
    \/ WriteBuffer
    \/ Poll
    \/ OidnRead
    \/ GpuRetire

SpecRoundTrip == Init /\ [][NextRoundTrip]_vars

\* The first allocation on a VulkanDevice, over the answers of the driver.
NextDriver ==
    \/ VulkanDeviceNew
    \/ AllocateBuffersDriver

SpecDriver == Init /\ [][NextDriver]_vars

----------------------------------------------------------------------------
(* Claims. *)

IsAllocation == lastOp \in {"allocate_buffers", "allocate_shared_buffers"}
IsPairing == lastOp \in {"Device::new", "VulkanDevice::new"}

\* objects the last operation created
NewVk == (lastArg.base.vk + 1)..Len(vkBuffers)
NewMem == (lastArg.base.mem + 1)..Len(memory)
NewDevs == (lastArg.base.devs + 1)..Len(oidnDevs)

\* C1: when the allocator returns an error, no memory allocation made by
\* that call is still outstanding (every failure after allocate_memory
\* frees the memory first).
C1_NoMemoryLeakOnError ==
    (IsAllocation /\ lastResult.result # "Ok")
        => \A m \in NewMem : ~memory[m].live

\* C2: a destroyed buffer releases the wgpu buffer first, then the OIDN
\* buffer, and frees the memory allocation last.
C2_ReleaseOrder ==
    lastOp = "drop" =>
        /\ 0 < FirstIndex(lastCalls, "destroy_buffer")
        /\ FirstIndex(lastCalls, "destroy_buffer")
              < FirstIndex(lastCalls, "oidnReleaseBuffer")
        /\ FirstIndex(lastCalls, "oidnReleaseBuffer")
              < FirstIndex(lastCalls, "free_memory")

\* C3: allocate_shared_buffers(0) returns InvalidSize without any native
\* call, whatever the backend, and a backend allocator is never entered
\* with size 0.
C3_ZeroSizeRejected ==
    lastOp = "allocate_shared_buffers" =>
        /\ lastArg.size = 0 =>
              /\ lastResult.result = "InvalidSize"
              /\ lastCalls = <<>>
              /\ NewVk = {} /\ NewMem = {}
              /\ Len(handles) = lastArg.base.handles
              /\ Len(buffers) = lastArg.base.bufs
        /\ (\/ Contains(lastCalls, "allocate_shared_buffers_vulkan")
            \/ Contains(lastCalls, "allocate_shared_buffers_dx12"))
              => lastArg.size > 0

C3_Witness ==
    /\ lastOp = "allocate_shared_buffers"
    /\ lastArg.size = 0
    /\ dev.backend = "Dx12"
    /\ lastResult.result = "InvalidSize"

\* C4: a pattern written through the wgpu buffer and followed by a poll is
\* what a read through the OIDN buffer returns, also when the allocator's
\* zero-fill was still pending at the time of the write.
C4_RoundTrip ==
    (lastOp = "read" /\ lastArg.buf = test.buf /\ test.drained)
        => lastResult.value = test.written

C4_Witness ==
    /\ lastOp = "read"
    /\ lastArg.buf = test.buf
    /\ test.racing
    /\ test.drained
    /\ test.written = <<1, 0>>
    /\ lastResult.value = <<1, 0>>
    /\ vkBuffers[buffers[lastArg.buf].vk].size = 1

\* C5: a failing device pairing leaves no engine device of that call
\* unreleased and returns no device; a device that is returned holds a
\* committed, unreleased engine device and a wgpu device.
C5_PairingAllOrNothing ==
    IsPairing =>
        /\ lastResult.result # "Ok" =>
              /\ dev = NoDev
              /\ \A h \in NewDevs : oidnDevs[h].released = 1
        /\ lastResult.result = "Ok" =>
              /\ dev # NoDev
              /\ dev.oidn # 0
              /\ oidnDevs[dev.oidn].committed
              /\ oidnDevs[dev.oidn].released = 0
              /\ Contains(lastCalls, "request_device")

\* C6: when no memory type qualifies, the allocator returns its error with
\* no native buffer, memory allocation or exported handle of that call
\* outstanding.
C6_NothingLeftAfterSelectionFailure ==
    (IsAllocation /\ lastResult.result # "Ok" /\ lastResult.step = 2) =>
        /\ \A v \in NewVk : ~vkBuffers[v].live
        /\ \A m \in NewMem : ~memory[m].live
        /\ Len(handles) = lastArg.base.handles

\* C7: the memory of a buffer is not freed while the buffer is alive, is
\* freed exactly once when the buffer has been destroyed, and belongs to
\* no other buffer.
C7_FreedExactlyOnce ==
    \A b \in 1..Len(buffers) :
        /\ buffers[b].alive =>
              memory[buffers[b].mem].live /\ memory[buffers[b].mem].frees = 0
        /\ ~buffers[b].alive =>
              ~memory[buffers[b].mem].live /\ memory[buffers[b].mem].frees = 1
        /\ \A c \in 1..Len(buffers) : buffers[c].mem = buffers[b].mem => c = b

C7_Witness ==
    \E b, c \in 1..Len(buffers) :
        /\ lastOp = "drop" /\ lastArg.buf = b
        /\ buffers[b].kind = "VulkanBuffer"
        /\ memory[buffers[b].mem].frees = 1
        /\ buffers[c].alive

\* the flag new_vulkan / new_dx12 require
RequiredFlags(backend) ==
    IF backend = "Vulkan" THEN OPAQUE_WIN32 ELSE D3D12_RESOURCE

\* Device::new reached the pairing with a non-null engine device
PairedNonNull ==
    /\ lastOp = "Device::new"
    /\ lastArg.adapter.engine = "device"
    /\ \/ lastArg.adapter.backend = "Dx12"
       \/ lastArg.adapter.backend = "Vulkan" /\ lastArg.adapter.hasExt

\* C8: pairing with a non-null engine device commits the device before it
\* queries externalMemoryTypes; an empty intersection with the required
\* flag releases the device exactly once, returns OidnImportUnsupported
\* and never requests the wgpu device; on success the supported flags are
\* non-zero and a subset of the required flags.
C8_ImportSupportChecked ==
    PairedNonNull =>
        LET a == lastArg.adapter
            required == RequiredFlags(a.backend)
            h == lastArg.base.devs + 1
        IN  /\ 0 < FirstIndex(lastCalls, "oidnCommitDevice")
            /\ FirstIndex(lastCalls, "oidnCommitDevice")
                  < FirstIndex(lastCalls, "oidnGetDeviceInt")
            /\ oidnDevs[h].committed
            /\ BitAnd(a.extTypes, required) = 0 =>
                  /\ lastResult.result = "OidnImportUnsupported"
                  /\ oidnDevs[h].released = 1
                  /\ Count(lastCalls, "oidnReleaseDevice") = 1
                  /\ ~Contains(lastCalls, "request_device")
            /\ lastResult.result = "Ok" =>
                  /\ lastResult.value # 0
                  /\ BitAnd(lastResult.value, required) = lastResult.value

C8_Witness ==
    /\ PairedNonNull
    /\ lastResult.result = "OidnImportUnsupported"
    /\ lastArg.adapter.extTypes # 0
    /\ oidnDevs[lastArg.base.devs + 1].released = 1

\* the engine was asked for a device and answered with a null handle
EngineReturnedNull ==
    /\ IsPairing
    /\ lastArg.adapter.engine # "device"
    /\ \/ Contains(lastCalls, "oidnNewDeviceByUUID")
       \/ Contains(lastCalls, "oidnNewDeviceByLUID")

\* C9: a null engine device makes device creation return its
\* engine-unsupported error; the null handle is neither committed nor
\* otherwise used, and the wgpu device is not requested.
C9_NullEngineDeviceRejected ==
    EngineReturnedNull =>
        /\ lastResult.result \in {"OidnUnsupported", "Err(None)"}
        /\ ~Contains(lastCalls, "oidnCommitDevice")
        /\ ~Contains(lastCalls, "oidnGetDeviceError")
        /\ ~Contains(lastCalls, "oidnGetDeviceInt")
        /\ ~Contains(lastCalls, "request_device")
        /\ dev = NoDev

\* C10: a Vulkan adapter without the external-memory extension is rejected
\* with the missing-feature error (Err(None) from VulkanDevice::new) before
\* an engine device or the wgpu device is requested; no device exists.
C10_MissingExtensionRejected ==
    (IsPairing /\ lastArg.adapter.backend = "Vulkan"
               /\ ~lastArg.adapter.hasExt) =>
        /\ lastResult.result =
              (IF lastOp = "Device::new" THEN "MissingFeature" ELSE "Err(None)")
        /\ ~Contains(lastCalls, "oidnNewDeviceByUUID")
        /\ ~Contains(lastCalls, "request_device")
        /\ NewDevs = {}
        /\ dev = NoDev

C10_Witness ==
    /\ lastOp = "VulkanDevice::new"
    /\ lastArg.adapter.backend = "Vulkan"
    /\ ~lastArg.adapter.hasExt
    /\ lastArg.adapter.engine = "device"
    /\ lastArg.adapter.requestOk
    /\ lastResult.result = "Err(None)"

\* C11: Device::new on an adapter whose backend is neither Vulkan nor Dx12
\* returns UnsupportedBackend carrying that backend, without a probe,
\* without requesting an engine device and without requesting the wgpu
\* device.
C11_UnsupportedBackendImmediate ==
    (lastOp = "Device::new" /\ lastArg.adapter.backend \notin {"Vulkan", "Dx12"})
        => /\ lastResult.result = "UnsupportedBackend"
           /\ lastResult.carried = lastArg.adapter.backend
           /\ lastCalls = <<>>
           /\ NewDevs = {}
           /\ dev = NoDev

C11_Witness ==
    /\ lastOp = "Device::new"
    /\ lastArg.adapter.backend = "Metal"
    /\ lastArg.adapter.hasExt
    /\ lastArg.adapter.engine = "device"
    /\ lastArg.adapter.requestOk
    /\ lastResult.result = "UnsupportedBackend"
    /\ lastResult.carried = "Metal"

\* the allocator a backend tag stands for
AllocatorOf(backend) ==
    IF backend = "Vulkan" THEN "allocate_shared_buffers_vulkan"
    ELSE "allocate_shared_buffers_dx12"

\* C12: a Device gets the backend of the adapter it was created from, keeps
\* it for good, and every allocate_shared_buffers call with size > 0 enters
\* the allocator of that backend and never the other one.
C12_BackendDispatch ==
    [][ /\ dev # NoDev => dev' = dev
        /\ (lastOp' = "Device::new" /\ lastResult'.result = "Ok") =>
              /\ dev'.backend = lastArg'.adapter.backend
              /\ dev'.backend \in {"Vulkan", "Dx12"}
        /\ (lastOp' = "allocate_shared_buffers" /\ lastArg'.size > 0) =>
              /\ lastCalls' # <<>>
              /\ Head(lastCalls') = AllocatorOf(dev.backend)
              /\ \A other \in {"Vulkan", "Dx12"} \ {dev.backend} :
                    ~Contains(lastCalls', AllocatorOf(other)) ]_vars

C12_Witness ==
    /\ lastOp = "allocate_shared_buffers"
    /\ lastArg.size > 0
    /\ dev.kind = "Device"
    /\ dev.backend = "Dx12"
    /\ Head(lastCalls) = "allocate_shared_buffers_dx12"
    /\ lastResult.result = "Ok"

\* the zero-fills of buffer b's native buffer waiting in the device's queue
ClearsOf(b) ==
    {i \in 1..Len(queues[dev.queue]) :
        /\ queues[dev.queue][i].op = "clear"
        /\ queues[dev.queue][i].vk = buffers[b].vk}

C14_SameByteRange ==
    \A b \in 1..Len(buffers) :
        /\ handles[buffers[b].handle] = buffers[b].mem
        /\ vkBuffers[buffers[b].vk].mem = buffers[b].mem
        /\ vkBuffers[buffers[b].vk].offset = 0
        /\ buffers[b].oidnSize = buffers[b].size
        /\ buffers[b].size <= memory[buffers[b].mem].size

C14_Witness ==
    \E b \in 1..Len(buffers) :
        /\ IsAllocation
        /\ lastResult.result = "Ok"
        /\ buffers[b].alive
        /\ lastArg.size = 1
        /\ buffers[b].size = 2
        /\ buffers[b].oidnSize = 2
        /\ handles[buffers[b].handle] = buffers[b].mem

\* C15: the error of allocate_buffers tells the class of the failing step:
\* Oidn, with the engine's last error queried, when the engine import
\* returned null; OutOfMemory when no memory type qualifies or when
\* allocate_memory, bind_buffer_memory or get_memory_win32_handle fails;
\* an import failure is never reported as OutOfMemory or InvalidSize.
C15_ErrorIdentifiesStep ==
    (lastOp = "allocate_buffers" /\ lastResult.result # "Ok"
                                 /\ lastResult.step > 0) =>
        /\ lastResult.step = 6 =>
              /\ lastResult.result = "Oidn"
              /\ Contains(lastCalls, "oidnGetDeviceError")
              /\ lastResult.result \notin {"OutOfMemory", "InvalidSize"}
        /\ lastResult.step \in 2..5 => lastResult.result = "OutOfMemory"

\* the native steps of one buffer, in program order
StepOrder ==
    <<"create_buffer", "get_buffer_memory_requirements",
      "get_physical_device_memory_properties", "allocate_memory",
      "bind_buffer_memory", "get_memory_win32_handle",
      "oidnNewSharedBufferFromWin32Handle", "buffer_from_raw",
      "create_command_encoder", "clear_buffer", "submit",
      "create_buffer_from_hal", "create_buffer_from_raw">>

\* the calls of lastCalls that are steps of StepOrder
StepCalls == SelectSeq(lastCalls, LAMBDA c : Contains(StepOrder, c))

\* Every buffer's steps are made in program order, none without the ones
\* before it, and only the last buffer's may stop short.
StepsInOrder ==
    \A i \in 1..Len(StepCalls) :
        LET p == FirstIndex(StepOrder, StepCalls[i])
        IN  /\ i = 1 => p = 1
            /\ i > 1 => \/ p = FirstIndex(StepOrder, StepCalls[i - 1]) + 1
                         \/ /\ p = 1
                            /\ StepCalls[i - 1] = StepOrder[Len(StepOrder)]

\* C17: the native steps of an allocator call come in the fixed order,
\* each only after all earlier ones succeeded (so the engine import only
\* after the bind and the export of the same memory), and a call that
\* returns an error has submitted no GPU work to the queue.
C17_StepOrderAndNoWorkOnError ==
    IsAllocation =>
        /\ StepsInOrder
        /\ lastResult.result # "Ok" =>
              /\ ~Contains(lastCalls, "submit")
              /\ \A i \in 1..Len(queues[dev.queue]) :
                    queues[dev.queue][i].vk \notin NewVk

\* the first half of C17 alone
C17_StepOrder == IsAllocation => StepsInOrder

\* buffer values the last operation built
NewBufs == (lastArg.base.bufs + 1)..Len(buffers)

\* C19: allocate_buffers(size, count) returns an error without a native
\* call when size = 0 or count = 0; on success it returns exactly count
\* buffers, each with a memory allocation of its own; when building a
\* buffer fails it returns no buffer and the memory of every buffer built
\* earlier in the call has been freed exactly once.
C19_AllOrNothing ==
    lastOp = "allocate_buffers" =>
        /\ (lastArg.size = 0 \/ lastArg.count = 0) =>
              /\ lastResult.result # "Ok"
              /\ lastCalls = <<>>
              /\ NewVk = {} /\ NewMem = {} /\ NewBufs = {}
        /\ lastResult.result = "Ok" =>
              /\ Len(lastResult.value) = lastArg.count
              /\ \A i, j \in 1..Len(lastResult.value) :
                    /\ lastResult.value[i] \in NewBufs
                    /\ buffers[lastResult.value[i]].alive
                    /\ memory[buffers[lastResult.value[i]].mem].live
                    /\ buffers[lastResult.value[i]].mem \in NewMem
                    /\ i # j => /\ lastResult.value[i] # lastResult.value[j]
                                /\ buffers[lastResult.value[i]].mem
                                      # buffers[lastResult.value[j]].mem
        /\ lastResult.result # "Ok" =>
              /\ lastResult.value = <<>>
              /\ \A b \in NewBufs :
                    /\ ~buffers[b].alive
                    /\ ~memory[buffers[b].mem].live
                    /\ memory[buffers[b].mem].frees = 1
                    /\ Count(lastCalls, "free_memory") = Cardinality(NewBufs)

C19_Witness ==
    /\ lastOp = "allocate_buffers"
    /\ lastArg.count = 2
    /\ lastResult.result # "Ok"
    /\ lastResult.step = 3
    /\ Cardinality(NewBufs) = 1
    /\ \A b \in NewBufs : memory[buffers[b].mem].frees = 1

\* C20: for a Vulkan adapter the probe issues the extended properties
\* query (get_physical_device_properties2, for the device UUID) only when
\* the adapter's API version is at least 1.1 and it supports the
\* external-memory extension; otherwise VulkanDevice::new ends with the
\* probe's negative result (Err(None)) and the query is not issued.
C20_QueryOnlyWhenVersionAndExtension ==
    (lastOp = "VulkanDevice::new" /\ lastArg.adapter.backend = "Vulkan") =>
        LET a == lastArg.adapter
            qualifies == a.apiVersion >= 11 /\ a.hasExt
        IN  /\ Contains(lastCalls, "get_physical_device_properties2")
                  => qualifies
            /\ ~qualifies =>
                  /\ lastResult.result = "Err(None)"
                  /\ ~Contains(lastCalls, "oidnNewDeviceByUUID")
                  /\ dev = NoDev

\* the memory types of the recorded list that the recorded bitmask accepts
\* and that are device-local
Qualifying ==
    {i \in 0..(Len(lastArg.memTypes) - 1) :
        /\ Bit(lastArg.typeBits, i)
        /\ DEVICE_LOCAL \in lastArg.memTypes[i + 1]}

\* C16: for every memory type list and bitmask, the memory is allocated
\* from the lowest index whose bit is set and whose type is device-local;
\* when there is none the call fails without allocating memory, and a type
\* that is not device-local is never used.
C16_LowestDeviceLocalType ==
    (lastOp = "allocate_buffers" /\ lastArg.size > 0) =>
        /\ Qualifying = {} =>
              /\ lastResult.result # "Ok"
              /\ lastResult.step = 2
              /\ lastResult.allocTypes = <<>>
              /\ ~Contains(lastCalls, "allocate_memory")
              /\ NewMem = {}
        /\ Qualifying # {} =>
              /\ Len(lastResult.allocTypes) = 1
              /\ lastResult.allocTypes[1] \in Qualifying
              /\ \A j \in Qualifying : lastResult.allocTypes[1] <= j
              /\ Cardinality(NewMem) = 1
        /\ \A i \in 1..Len(lastResult.allocTypes) :
              /\ lastResult.allocTypes[i] \in 0..(Len(lastArg.memTypes) - 1)
              /\ DEVICE_LOCAL \in lastArg.memTypes[lastResult.allocTypes[i] + 1]

C16_Witness ==
    /\ lastOp = "allocate_buffers"
    /\ lastArg.size > 0
    /\ lastArg.memTypes = <<{HOST_VISIBLE}, {HOST_VISIBLE, DEVICE_LOCAL},
                            {DEVICE_LOCAL}>>
    /\ lastArg.typeBits = 7
    /\ lastResult.allocTypes = <<1>>
    /\ lastResult.result = "Ok"

\* the requested size rounded up to the reported alignment
Rounded(n) ==
    /\ n % lastArg.alignment = 0
    /\ n >= lastArg.size
    /\ n - lastArg.size < lastArg.alignment

\* The sizes of a returned buffer are the rounded size.
SizesRounded(b) ==
    /\ Rounded(memory[buffers[b].mem].size)
    /\ Rounded(buffers[b].oidnSize)
    /\ Rounded(buffers[b].size)
    /\ \A c \in ClearsOf(b) :
          queues[dev.queue][c].from = 0 /\ Rounded(queues[dev.queue][c].to)

\* C18: the memory allocation, the engine import, the wgpu buffer
\* declaration and the zero-fill all use the requested size rounded up to
\* the reported alignment, and neither the zero-fill range nor the declared
\* wgpu buffer size exceeds the size the native buffer was created with.
C18_SizesWithinNativeBuffer ==
    (lastOp = "allocate_buffers" /\ lastResult.result = "Ok") =>
        \A i \in 1..Len(lastResult.value) :
            LET b == lastResult.value[i]
            IN  /\ SizesRounded(b)
                /\ buffers[b].size <= vkBuffers[buffers[b].vk].size
                /\ \A c \in ClearsOf(b) :
                      queues[dev.queue][c].to <= vkBuffers[buffers[b].vk].size

\* the first half of C18 alone
C18_SizesRounded ==
    (lastOp = "allocate_buffers" /\ lastResult.result = "Ok") =>
        \A i \in 1..Len(lastResult.value) : SizesRounded(lastResult.value[i])

====
